---- MODULE Spec2Model ----
(***************************************************************************)
(* Model of sasquat's per-domain verification pipeline (lib/verify) and of *)
(* the worker pool of main() that fans it out over the typo permutations.  *)
(*                                                                         *)
(* Strings that the code inspects (hostnames, CNAME answers) are sequences *)
(* of one-character strings, so that TrimSuffix, TrimSpace, EqualFold and  *)
(* concatenation are computed as the Go library computes them.  Opaque     *)
(* texts (IP literals, certificate fields, status lines) are TLA+ strings. *)
(* A nil pointer is the empty sequence <<>> and &x is <<x>>.               *)
(* The error value nil is the string "nil".                                *)
(***************************************************************************)
EXTENDS Integers, Sequences, FiniteSets, Bags, TLC

\* ------------------------------------------------------------------ bounds
MaxIPs == 1         \* addresses in one LookupIPAddr answer
MaxHosts == 1       \* hosts in one LookupMX / LookupNS answer
MaxWorkers == 2     \* largest value of the -workers flag
MaxPerms == 2       \* permutations generated over all strategies
MaxTLDs == 2        \* entries of the -tlds list
MaxCalls == 4       \* VerifyDomain calls of one run (permutations times TLDs)
MaxCap == 2         \* largest value of the -max flag

\* ------------------------------------------------------------ string model
Lower(c) == IF c = "A" THEN "a" ELSE IF c = "B" THEN "b" ELSE IF c = "C" THEN "c" ELSE c

Upper(c) == IF c = "a" THEN "A" ELSE IF c = "b" THEN "B" ELSE IF c = "c" THEN "C" ELSE c

ToLower(s) == [i \in 1..Len(s) |-> Lower(s[i])]

ToUpper(s) == [i \in 1..Len(s) |-> Upper(s[i])]

\* strings.TrimSuffix(s, "."): removes one trailing dot, if there is one
TrimSuffixDot(s) == IF Len(s) > 0 /\ s[Len(s)] = "." THEN SubSeq(s, 1, Len(s) - 1) ELSE s

\* strings.EqualFold over the model's alphabet
EqualFold(s, t) == Len(s) = Len(t) /\ \A i \in 1..Len(s) : Lower(s[i]) = Lower(t[i])

RECURSIVE TrimLeft(_)
TrimLeft(s) == IF Len(s) > 0 /\ s[1] = " " THEN TrimLeft(Tail(s)) ELSE s

RECURSIVE TrimRight(_)
TrimRight(s) == IF Len(s) > 0 /\ s[Len(s)] = " " THEN TrimRight(SubSeq(s, 1, Len(s) - 1)) ELSE s

\* strings.TrimSpace
TrimSpace(s) == TrimRight(TrimLeft(s))

\* the one element of a singleton set (used to name an intermediate result
\* once, where a LET would be evaluated again at every use)
The(S) == CHOOSE x \in S : TRUE

\* all sequences over S of length at most n
SeqsUpTo(S, n) == UNION {[1..k -> S] : k \in 0..n}

\* ------------------------------------------------------------------ errors
\* error values: nil, the two context errors, any other lookup error, and the
\* two errors of toASCII
ErrNil == "nil"

ErrOther == "no such host"

ErrDeadline == "context deadline exceeded"

ErrCanceled == "context canceled"

ErrEmpty == "empty domain"

ErrIDNA == "idna: disallowed rune"

LookupErrs == {ErrOther, ErrDeadline, ErrCanceled}

\* errors.Is(err, context.DeadlineExceeded) || errors.Is(err, context.Canceled)
IsContextErr(e) == e = ErrDeadline \/ e = ErrCanceled

\* --------------------------------------------------------------- DNS stage
DNSResultZero ==
  [HasA |-> FALSE, HasAAAA |-> FALSE, HasCNAME |-> FALSE, HasMX |-> FALSE, HasNS |-> FALSE,
   A |-> <<>>, AAAA |-> <<>>, CNAME |-> <<>>, MX |-> <<>>, NS |-> <<>>]

\* a net.IP: its byte length, whether a 16-byte value is a v4-mapped address,
\* and the text ip.String() prints
IP4 == [bytes |-> 4, mapped |-> FALSE, text |-> "192.0.2.1"]

IP4in6 == [bytes |-> 16, mapped |-> TRUE, text |-> "192.0.2.7"]

IP6 == [bytes |-> 16, mapped |-> FALSE, text |-> "2001:db8::1"]

IPs == {IP4, IP4in6, IP6}

\* ip.To4() != nil
To4(ip) == ip.bytes = 4 \/ ip.mapped

\* ip.To16() != nil
To16(ip) == ip.bytes = 4 \/ ip.bytes = 16

\* the loop over ips of the address lookup
RECURSIVE classifyIPs(_, _)
classifyIPs(r, ips) ==
  IF ips = <<>> THEN r
  ELSE LET ip == Head(ips) IN
       IF To4(ip)
       THEN classifyIPs([r EXCEPT !.HasA = TRUE, !.A = Append(@, ip.text)], Tail(ips))
       ELSE IF To16(ip)
       THEN classifyIPs([r EXCEPT !.HasAAAA = TRUE, !.AAAA = Append(@, ip.text)], Tail(ips))
       ELSE classifyIPs(r, Tail(ips))

\* A / AAAA: ans = [err, ips] is what resolver.LookupIPAddr returned
lookupAddr(r, ans) == IF ans.err = ErrNil THEN classifyIPs(r, ans.ips) ELSE r

\* what resolver.LookupCNAME answers for the queried name: nothing, the name
\* itself in canonical form (with the trailing dot, in the zone's letter case),
\* another host, or the root name
OtherHost == <<"b", ".", "c", ".">>

CNAMEKinds == {"empty", "self", "selfUpper", "other", "root"}

Canonical(domain) == IF Len(domain) > 0 /\ domain[Len(domain)] = "." THEN domain ELSE domain \o <<".">>

CNAMEText(kind, domain) ==
  CASE kind = "empty" -> <<>>
    [] kind = "self" -> Canonical(domain)
    [] kind = "selfUpper" -> ToUpper(Canonical(domain))
    [] kind = "other" -> OtherHost
    [] kind = "root" -> <<".">>

\* CNAME: ans = [err, name]
lookupCNAME(r, domain, ans) ==
  LET cname == CNAMEText(ans.name, domain) IN
  IF ans.err = ErrNil /\ cname # <<>> /\ ~EqualFold(TrimSuffixDot(cname), domain)
  THEN [r EXCEPT !.HasCNAME = TRUE, !.CNAME = TrimSuffixDot(cname)]
  ELSE r

TrimHosts(hosts) == [i \in 1..Len(hosts) |-> TrimSuffixDot(hosts[i])]

\* MX: ans = [err, hosts]
lookupMX(r, ans) ==
  IF ans.err = ErrNil /\ Len(ans.hosts) > 0
  THEN [r EXCEPT !.HasMX = TRUE, !.MX = @ \o TrimHosts(ans.hosts)]
  ELSE r

\* NS: ans = [err, hosts]
lookupNS(r, ans) ==
  IF ans.err = ErrNil /\ Len(ans.hosts) > 0
  THEN [r EXCEPT !.HasNS = TRUE, !.NS = @ \o TrimHosts(ans.hosts)]
  ELSE r

\* a lookupDNS that reports the first lookup error whatever the others found
dnsError_FirstError(r, env) ==
  IF env.addr.err # ErrNil THEN env.addr.err
  ELSE IF env.cname.err # ErrNil THEN env.cname.err
  ELSE IF env.mx.err # ErrNil THEN env.mx.err
  ELSE IF env.ns.err # ErrNil THEN env.ns.err
  ELSE ErrNil

\* the error lookupDNS returns with r
dnsError(r, env) ==
  IF ~r.HasA /\ ~r.HasAAAA /\ ~r.HasCNAME /\ ~r.HasMX /\ ~r.HasNS
  THEN IF env.addr.err # ErrNil THEN env.addr.err
       ELSE IF env.cname.err # ErrNil THEN env.cname.err
       ELSE IF env.mx.err # ErrNil THEN env.mx.err
       ELSE IF env.ns.err # ErrNil THEN env.ns.err
       ELSE ErrNil
  ELSE ErrNil

\* lookupDNS(ctx, domain): env holds what the resolver answers to each of the
\* four lookups; net lists the lookups issued, in order
lookupDNS(domain, env) ==
  The({[r |-> r, err |-> dnsError(r, env),
        net |-> <<"LookupIPAddr", "LookupCNAME", "LookupMX", "LookupNS">>] :
         r \in {lookupNS(lookupMX(lookupCNAME(lookupAddr(DNSResultZero, env.addr), domain, env.cname),
                                  env.mx), env.ns)}})

\* --------------------------------------------------------------- TLS probe
TLSResultZero ==
  [Connected |-> FALSE, ServerName |-> <<>>, Issuer |-> "", Subject |-> "", NotBefore |-> "",
   NotAfter |-> "", DNSNames |-> <<>>, CommonName |-> "", SerialNumber |-> ""]

\* what the peer on port 443 does: refuses the dial, fails the handshake,
\* completes it without a certificate, or completes it with a certificate
TLSPeers == {"dial_fail", "handshake_fail", "no_cert", "cert"}

\* fetchTLS(ctx, domain); net lists the connection events, in order
fetchTLS(domain, peer) ==
  LET res == [TLSResultZero EXCEPT !.ServerName = domain] IN
  IF peer = "dial_fail" THEN [res |-> res, net |-> <<"dial:443">>]
  ELSE IF peer = "handshake_fail"
  THEN [res |-> res, net |-> <<"dial:443", "open:443", "handshake", "close:443">>]
  ELSE IF peer = "no_cert"
  THEN [res |-> [res EXCEPT !.Connected = TRUE],
        net |-> <<"dial:443", "open:443", "handshake", "close:443">>]
  ELSE [res |-> [res EXCEPT !.Connected = TRUE, !.Issuer = "CN=Test CA", !.Subject = "CN=leaf",
                            !.NotBefore = "2024-01-01", !.NotAfter = "2025-01-01",
                            !.DNSNames = <<"leaf.test">>, !.CommonName = "leaf",
                            !.SerialNumber = "4660"],
        net |-> <<"dial:443", "open:443", "handshake", "close:443">>]

\* -------------------------------------------------------------- HTTP probe
RedirectLimit == 10

\* getTargetDomain(https, domain): the URL as scheme and host (the path is "/")
getTargetDomain(https, domain) ==
  IF https THEN [scheme |-> "https", host |-> domain, hop |-> 0]
  ELSE [scheme |-> "http", host |-> domain, hop |-> 0]

\* a result that starts out as the zero HTTPResult with the URL
generateHTTPResult_NotAttempted(https, domain) ==
  [Attempted |-> FALSE, URL |-> getTargetDomain(https, domain), Status |-> "", StatusCode |-> 0,
   Location |-> "", Server |-> "", RedirectChain |-> <<>>]

generateHTTPResult(https, domain) ==
  [Attempted |-> TRUE, URL |-> getTargetDomain(https, domain), Status |-> "", StatusCode |-> 0,
   Location |-> "", Server |-> "", RedirectChain |-> <<>>]

\* What one scheme of the host serves: no connection at all (up = FALSE), or
\* `redirects` redirect responses in a row, each to the next hop of the same
\* scheme and host, and then a 200.
Sites == {[up |-> FALSE, redirects |-> 0], [up |-> TRUE, redirects |-> 0],
          [up |-> TRUE, redirects |-> 2], [up |-> TRUE, redirects |-> RedirectLimit + 1]}

RedirectResp == [Status |-> "301 Moved Permanently", StatusCode |-> 301, Location |-> "/next",
                 Server |-> "srv"]

FinalResp == [Status |-> "200 OK", StatusCode |-> 200, Location |-> "", Server |-> "srv"]

\* The client's redirect loop for one client.Do: k requests have been issued
\* (via has k entries) and the k-th was answered; chain is the RedirectChain of
\* the HTTPResult the CheckRedirect closure captured.
RECURSIVE doLoop(_, _, _, _, _)
doLoop(cfg, url, site, k, chain) ==
  IF k > site.redirects
  THEN [err |-> ErrNil, resp |-> <<FinalResp>>, open |-> 1, chain |-> chain, requests |-> k]
  ELSE IF ~cfg.HTTPFollowRedirects
  THEN [err |-> ErrNil, resp |-> <<RedirectResp>>, open |-> 1, chain |-> chain, requests |-> k]
  ELSE IF k >= RedirectLimit
  THEN [err |-> "stopped after 10 redirects", resp |-> <<RedirectResp>>, open |-> 0,
        chain |-> chain, requests |-> k]
  ELSE doLoop(cfg, url, site, k + 1, Append(chain, [url EXCEPT !.hop = k]))

\* a client whose CheckRedirect follows redirects whatever the config says
clientDo_AlwaysFollow(cfg, url, site, chain) ==
  IF ~site.up
  THEN [err |-> "transport", resp |-> <<>>, open |-> 0, chain |-> chain, requests |-> 1]
  ELSE doLoop([cfg EXCEPT !.HTTPFollowRedirects = TRUE], url, site, 1, chain)

\* client.Do(req) for a HEAD request of url
clientDo(cfg, url, site, chain) ==
  IF ~site.up
  THEN [err |-> "transport", resp |-> <<>>, open |-> 0, chain |-> chain, requests |-> 1]
  ELSE doLoop(cfg, url, site, 1, chain)

\* res with the status fields of resp
withResponse(res, resp) ==
  [res EXCEPT !.Status = resp.Status, !.StatusCode = resp.StatusCode,
              !.Location = resp.Location, !.Server = resp.Server]

\* one attempt, as the log of fetchHTTP lists it
attempt(res, cfg, done) == <<res.URL.scheme, cfg.UserAgent, done.requests, res.URL.host>>

\* the fallback branch of fetchHTTP: res and first are the result and the
\* outcome of the HTTPS attempt
fallbackHTTP(domain, cfg, henv, res, first) ==
  The({IF second.err # ErrNil
       THEN [res |-> res2, panic |-> FALSE, open |-> first.open + second.open,
             closureChain |-> second.chain, net |-> <<attempt(res, cfg, first), attempt(res2, cfg, second)>>]
       ELSE [res |-> withResponse(res2, second.resp[1]), panic |-> FALSE,
             open |-> first.open + second.open - 1, closureChain |-> second.chain,
             net |-> <<attempt(res, cfg, first), attempt(res2, cfg, second)>>] :
         <<res2, second>> \in {<<r, clientDo(cfg, r.URL, henv.http, first.chain)>> :
                                 r \in {[res EXCEPT !.URL = getTargetDomain(FALSE, domain)]}}})

\* fetchHTTP(ctx, https, domain, cfg); henv = [https, http] are the two sites
\* of the host.  configureHTTPClient receives the HTTPResult by value, so the
\* closure appends to its own copy (closureChain), not to res.  panic is the
\* nil dereference of resp; open counts response bodies left unclosed; net
\* lists the attempts as <<scheme, user agent, requests issued, host>>.
fetchHTTP(https, domain, cfg, henv) ==
  The({IF first.err # ErrNil /\ https
       THEN fallbackHTTP(domain, cfg, henv, res, first)
       ELSE IF first.resp = <<>>
       THEN [res |-> res, panic |-> TRUE, open |-> first.open, closureChain |-> first.chain,
             net |-> <<attempt(res, cfg, first)>>]
       ELSE [res |-> withResponse(res, first.resp[1]), panic |-> FALSE, open |-> first.open,
             closureChain |-> first.chain, net |-> <<attempt(res, cfg, first)>>] :
         <<res, first>> \in {<<r, clientDo(cfg, r.URL, IF https THEN henv.https ELSE henv.http, r.RedirectChain)>> :
                               r \in {generateHTTPResult(https, domain)}}})

\* ------------------------------------------------------------ orchestrator
\* idna.Lookup.ToASCII over the model's alphabet (ASCII letters, dot, space):
\* letters are mapped to lower case, a space is a disallowed rune
idnaToASCII(s) ==
  IF \E i \in 1..Len(s) : s[i] = " " THEN [s |-> ToLower(s), err |-> ErrIDNA]
  ELSE [s |-> ToLower(s), err |-> ErrNil]

\* domain = strings.TrimSpace(strings.TrimSuffix(domain, "."))
trimDomain(domain) == TrimSpace(TrimSuffixDot(domain))

toASCII(domain) ==
  LET d == trimDomain(domain) IN
  IF d = <<>> THEN [s |-> <<>>, err |-> ErrEmpty] ELSE idnaToASCII(d)

VerificationZero ==
  [Domain |-> <<>>, ASCII |-> <<>>, DNS |-> DNSResultZero, TLS |-> <<>>, HTTP |-> <<>>,
   Resolvable |-> FALSE, HasMail |-> FALSE]

DefaultUserAgent == "sasquat-verifier/1.0"

\* the defaults VerifyDomain fills in (the timeouts are not part of the model:
\* an expired deadline shows as the error a lookup returns)
withDefaults(cfg) == IF cfg.UserAgent = "" THEN [cfg EXCEPT !.UserAgent = DefaultUserAgent] ELSE cfg

\* a TLS stage that ignores Resolvable
tlsStage_Ungated(cfg, resolvable, ascii, env) ==
  IF cfg.DoTLS
  THEN LET tr == fetchTLS(ascii, env.tls) IN [TLS |-> <<tr.res>>, net |-> tr.net]
  ELSE [TLS |-> <<>>, net |-> <<>>]

\* the TLS stage of VerifyDomain
tlsStage(cfg, resolvable, ascii, env) ==
  IF cfg.DoTLS /\ resolvable
  THEN LET tr == fetchTLS(ascii, env.tls) IN [TLS |-> <<tr.res>>, net |-> tr.net]
  ELSE [TLS |-> <<>>, net |-> <<>>]

\* the HTTP stage of VerifyDomain
httpStage(cfg, resolvable, ascii, env) ==
  IF cfg.DoHTTP /\ resolvable
  THEN LET hr == fetchHTTP(TRUE, ascii, cfg, [https |-> env.https, http |-> env.http])
       IN [HTTP |-> <<hr.res>>, net |-> hr.net, open |-> hr.open]
  ELSE [HTTP |-> <<>>, net |-> <<>>, open |-> 0]

\* whether VerifyDomain gives up after the DNS stage
dnsFatal(err) == err # ErrNil /\ IsContextErr(err)

\* a Resolvable that leaves the CNAME out
isResolvable_AddressOnly(r) == r.HasA \/ r.HasAAAA

\* v.Resolvable, from the DNSResult
isResolvable(r) == r.HasA \/ r.HasAAAA \/ r.HasCNAME

\* v.HasMail, from the DNSResult
hasMail(r) == r.HasMX

\* VerifyDomain from the TLS stage on: d is what lookupDNS returned
verifyProbes(domain, cfg, env, ascii, d) ==
  The({[v |-> [Domain |-> domain, ASCII |-> ascii, DNS |-> d.r, TLS |-> t.TLS, HTTP |-> h.HTTP,
               Resolvable |-> resolvable, HasMail |-> hasMail(d.r)],
        err |-> ErrNil, lookup |-> <<[r |-> d.r, err |-> d.err]>>,
        dns |-> d.net, tls |-> t.net, http |-> h.net] :
         <<resolvable, t, h>> \in {<<res, tlsStage(cfg, res, ascii, env), httpStage(cfg, res, ascii, env)>> :
                                     res \in {isResolvable(d.r)}}})

\* VerifyDomain from the DNS stage on: a is what toASCII returned
verifyDNS(domain, cfg, env, a) ==
  IF a.err # ErrNil
  THEN [v |-> VerificationZero, err |-> a.err, lookup |-> <<>>, dns |-> <<>>, tls |-> <<>>, http |-> <<>>]
  ELSE The({IF dnsFatal(d.err)
            THEN [v |-> VerificationZero, err |-> d.err, lookup |-> <<[r |-> d.r, err |-> d.err]>>,
                  dns |-> d.net, tls |-> <<>>, http |-> <<>>]
            ELSE verifyProbes(domain, cfg, env, a.s, d) : d \in {lookupDNS(a.s, env)}})

\* VerifyDomain(ctx, domain, cfg): env is what the network answers for this
\* hostname.  lookup is what lookupDNS returned (<<>> when it was not called);
\* dns, tls and http list the network operations of each stage.
VerifyDomain(domain, cfg0, env) ==
  The({verifyDNS(domain, cfg, env, a) : <<cfg, a>> \in {<<withDefaults(cfg0), toASCII(domain)>>}})

\* ------------------------------------------------------ network environment
\* what the resolver returns to one lookup
AddrAnswers ==
  {[err |-> e, ips |-> <<>>] : e \in LookupErrs} \cup {[err |-> ErrNil, ips |-> l] : l \in SeqsUpTo(IPs, MaxIPs)}

CNAMEAnswers ==
  {[err |-> e, name |-> "empty"] : e \in LookupErrs} \cup {[err |-> ErrNil, name |-> k] : k \in CNAMEKinds}

MailHost == <<"m", ".", "c", ".">>

\* LookupMX and LookupNS return the valid records together with an error when
\* the answer also held malformed names
HostAnswers ==
  {[err |-> e, hosts |-> <<>>] : e \in LookupErrs}
    \cup {[err |-> ErrNil, hosts |-> l] : l \in SeqsUpTo({MailHost}, MaxHosts)}
    \cup {[err |-> ErrOther, hosts |-> l] : l \in SeqsUpTo({MailHost}, MaxHosts) \ {<<>>}}

Down == [up |-> FALSE, redirects |-> 0]

Plain == [up |-> TRUE, redirects |-> 0]

\* what the host's TLS and HTTP endpoints do
Endpoints ==
  {[tls |-> "dial_fail", https |-> Down, http |-> Down],
   [tls |-> "handshake_fail", https |-> Down, http |-> Plain],
   [tls |-> "cert", https |-> [up |-> TRUE, redirects |-> 2], http |-> Plain],
   [tls |-> "cert", https |-> [up |-> TRUE, redirects |-> RedirectLimit + 1], http |-> Down]}

NetEnv(a, c, m, n, e) ==
  [addr |-> a, cname |-> c, mx |-> m, ns |-> n, tls |-> e.tls, https |-> e.https, http |-> e.http]

Envs == {NetEnv(a, c, m, n, e) : a \in AddrAnswers, c \in CNAMEAnswers, m \in HostAnswers, n \in HostAnswers, e \in Endpoints}

Failed(e) == [err |-> e, hosts |-> <<>>]

\* the hosts the pool meets: no records at all, mail only, an address with a
\* web server, name servers only, and a resolver that runs into the deadline
EnvNone == NetEnv([err |-> ErrOther, ips |-> <<>>], [err |-> ErrOther, name |-> "empty"], Failed(ErrOther), Failed(ErrOther), [tls |-> "dial_fail", https |-> Down, http |-> Down])

EnvMail == NetEnv([err |-> ErrOther, ips |-> <<>>], [err |-> ErrOther, name |-> "empty"], [err |-> ErrNil, hosts |-> <<MailHost>>], Failed(ErrOther), [tls |-> "cert", https |-> Plain, http |-> Plain])

EnvWeb == NetEnv([err |-> ErrNil, ips |-> <<IP4>>], [err |-> ErrNil, name |-> "self"], Failed(ErrOther), Failed(ErrOther), [tls |-> "cert", https |-> Plain, http |-> Plain])

EnvNS == NetEnv([err |-> ErrOther, ips |-> <<>>], [err |-> ErrOther, name |-> "empty"], Failed(ErrOther), [err |-> ErrNil, hosts |-> <<MailHost>>], [tls |-> "dial_fail", https |-> Down, http |-> Down])

EnvTimeout == NetEnv([err |-> ErrDeadline, ips |-> <<>>], [err |-> ErrDeadline, name |-> "empty"], Failed(ErrDeadline), Failed(ErrDeadline), [tls |-> "dial_fail", https |-> Down, http |-> Down])

PoolEnvs == {EnvNone, EnvNS, EnvMail, EnvWeb, EnvTimeout}

\* verify.Config as main builds it from -tls, -http and -follow
Configs == [DoTLS : BOOLEAN, DoHTTP : BOOLEAN, HTTPFollowRedirects : BOOLEAN, UserAgent : {"saskquat-verifier/1.0"}]

\* the flag settings the pool is run with: the defaults of the command line
\* (-tls only), every probe off, and every probe on with -follow
PoolConfigs == {c \in Configs : (c.DoHTTP <=> c.HTTPFollowRedirects) /\ (c.DoHTTP => c.DoTLS)}

\* the raw domain strings VerifyDomain is called with
RawDomains ==
  {<<"a", ".", "c">>, <<" ", "A", ".", "c", ".">>, <<"a", ".", "c", ".", " ">>, <<".">>, <<" ", ".", " ">>,
   <<"a", " ", "c">>}

\* ------------------------------------------------------------------- state
VARIABLES workers, maxDomains, candidates, tldsOverride, vCfg, mainPc, spawned, prodPc, sendIdx, wpc, wd, wt, wmsg, inClosed, outClosed, wg, allData, sentIn, calls, vin, vout, vpc

poolVars == <<workers, maxDomains, candidates, tldsOverride, vCfg, mainPc, spawned, prodPc, sendIdx, wpc, wd, wt, wmsg, inClosed, outClosed, wg, allData, sentIn, calls>>

verifyVars == <<vin, vout, vpc>>

vars == <<poolVars, verifyVars>>

Workers == 1..MaxWorkers

\* the k-th generated permutation and the k-th TLD
PermName(k) == [j \in 1..k |-> "a"]

TLDName(k) == [j \in 1..k |-> "c"]

Strategy(from, to) == [StrategyName |-> "s", Permutations |-> [j \in 1..(to - from + 1) |-> PermName(from + j - 1)]]

\* the candidate lists typo.Generate may return: no strategy, a strategy
\* without permutations, one strategy, or two strategies sharing permutations
Generated ==
  {<<>>} \cup {<<Strategy(1, n)>> : n \in 0..1}
         \cup {<<Strategy(1, 1), Strategy(2, n)>> : n \in 2..MaxPerms}

\* the order in which the producer's nested loops visit the permutations
RECURSIVE Flatten(_)
Flatten(cs) == IF cs = <<>> THEN <<>> ELSE Head(cs).Permutations \o Flatten(Tail(cs))

\* the Output record a worker builds from a Verification
Output(v) == [Domain |-> v.ASCII, Resolvable |-> v.Resolvable, HasMail |-> v.HasMail, DNS |-> v.DNS, TLS |-> v.TLS, HTTP |-> v.HTTP]

Idle == [domain |-> <<>>, cfg |-> [DoTLS |-> FALSE, DoHTTP |-> FALSE, HTTPFollowRedirects |-> FALSE, UserAgent |-> ""], env |-> EnvNone]

NoResult == [v |-> VerificationZero, err |-> ErrNil, lookup |-> <<>>, dns |-> <<>>, tls |-> <<>>, http |-> <<>>]

VerifyIdle == vin = Idle /\ vout = NoResult /\ vpc = "idle"

\* if *maxDomains > 0 && *maxDomains < len(candidates) { candidates = candidates[:*maxDomains] }
capCandidates(cs, n) == IF n > 0 /\ n < Len(cs) THEN SubSeq(cs, 1, n) ELSE cs

\* main up to the first `go`: the flags are parsed, the candidates generated
\* and cut by -max, the queues made; nothing runs yet
PoolInitFrom(ws, caps, gens, cfgs) ==
  /\ workers \in ws
  /\ maxDomains \in caps
  /\ candidates \in {capCandidates(g, maxDomains) : g \in gens}
  /\ tldsOverride \in {[j \in 1..n |-> TLDName(j)] : n \in 0..MaxTLDs}
  /\ Len(Flatten(candidates)) * Len(tldsOverride) <= MaxCalls
  /\ vCfg \in cfgs
  /\ mainPc = "spawn"
  /\ spawned = 0
  /\ prodPc = "unborn"
  /\ sendIdx = 1
  /\ wpc = [w \in Workers |-> "unborn"]
  /\ wd = [w \in Workers |-> <<>>]
  /\ wt = [w \in Workers |-> 0]
  /\ wmsg = [w \in Workers |-> <<>>]
  /\ inClosed = FALSE
  /\ outClosed = FALSE
  /\ wg = 0
  /\ allData = <<>>
  /\ sentIn = <<>>
  /\ calls = EmptyBag

\* a run with at least one worker and without -max (the flag's default, 0)
PoolInit == PoolInitFrom(1..MaxWorkers, {0}, Generated, PoolConfigs)

Init == PoolInit /\ VerifyIdle

\* ------------------------------------------------------------ worker pool
Perms == Flatten(candidates)

\* where a worker stands after the body of the TLD loop ran for tldsOverride[t]:
\* at the next TLD, or back at `range in`
afterTLD(t) == IF t < Len(tldsOverride) THEN [pc |-> "verify", t |-> t + 1] ELSE [pc |-> "range", t |-> 0]

\* where a worker stands when `for d := range in` hands it a permutation
afterReceive == IF Len(tldsOverride) > 0 THEN [pc |-> "verify", t |-> 1] ELSE [pc |-> "range", t |-> 0]

\* a `break` in place of the `continue` after a VerifyDomain error
afterError_Break(t) == [pc |-> "range", t |-> 0]

\* the `continue` after a VerifyDomain error
afterError(t) == afterTLD(t)

\* a pool without the triage filter
dropped_Never(v) == FALSE

\* the triage filter: the result is dropped
dropped(v) == ~v.Resolvable /\ ~v.HasMail

\* a producer that stops one permutation early
allSent_OneShort == sendIdx >= Len(Perms)

\* the producer's loops over candidates and permutations are done
allSent == sendIdx > Len(Perms)

\* a wg.Wait() that does not wait
waitDone_NoWait == TRUE

\* wg.Wait() returns
waitDone == wg = 0

\* for i := 0; i < *workers; i++ { wg.Add(1); go func() {...}() }
SpawnWorker ==
  /\ mainPc = "spawn"
  /\ spawned < workers
  /\ spawned' = spawned + 1
  /\ wg' = wg + 1
  /\ wpc' = [wpc EXCEPT ![spawned + 1] = "range"]
  /\ UNCHANGED <<workers, maxDomains, candidates, tldsOverride, vCfg, mainPc, prodPc, sendIdx, wd, wt, wmsg, inClosed, outClosed, allData, sentIn, calls, verifyVars>>

\* go func() { ... }() of the producer; main goes on to its read loop (the
\* output file is taken to be creatable: file plumbing is not modelled)
StartProducer ==
  /\ mainPc = "spawn"
  /\ spawned >= workers
  /\ prodPc' = "send"
  /\ mainPc' = "read"
  /\ UNCHANGED <<workers, maxDomains, candidates, tldsOverride, vCfg, spawned, sendIdx, wpc, wd, wt, wmsg, inClosed, outClosed, wg, allData, sentIn, calls, verifyVars>>

\* in <- p meets `for d := range in` of worker w (the queue is unbuffered)
SendPermutation(w) ==
  /\ prodPc = "send"
  /\ ~allSent
  /\ ~inClosed
  /\ wpc[w] = "range"
  /\ wd' = [wd EXCEPT ![w] = Perms[sendIdx]]
  /\ wpc' = [wpc EXCEPT ![w] = afterReceive.pc]
  /\ wt' = [wt EXCEPT ![w] = afterReceive.t]
  /\ sentIn' = Append(sentIn, Perms[sendIdx])
  /\ sendIdx' = sendIdx + 1
  /\ UNCHANGED <<workers, maxDomains, candidates, tldsOverride, vCfg, mainPc, spawned, prodPc, wmsg, inClosed, outClosed, wg, allData, calls, verifyVars>>

\* close(in)
CloseIn ==
  /\ prodPc = "send"
  /\ allSent
  /\ inClosed' = TRUE
  /\ prodPc' = "wait"
  /\ UNCHANGED <<workers, maxDomains, candidates, tldsOverride, vCfg, mainPc, spawned, sendIdx, wpc, wd, wt, wmsg, outClosed, wg, allData, sentIn, calls, verifyVars>>

\* wg.Wait() of the producer
ProducerWait ==
  /\ prodPc = "wait"
  /\ waitDone
  /\ prodPc' = "close"
  /\ UNCHANGED <<workers, maxDomains, candidates, tldsOverride, vCfg, mainPc, spawned, sendIdx, wpc, wd, wt, wmsg, inClosed, outClosed, wg, allData, sentIn, calls, verifyVars>>

\* close(out)
CloseOut ==
  /\ prodPc = "close"
  /\ outClosed' = TRUE
  /\ prodPc' = "done"
  /\ UNCHANGED <<workers, maxDomains, candidates, tldsOverride, vCfg, mainPc, spawned, sendIdx, wpc, wd, wt, wmsg, inClosed, wg, allData, sentIn, calls, verifyVars>>

\* one pass of the TLD loop of worker w: VerifyDomain, the error check and the
\* triage filter.  calls records the call: who made it, for which permutation
\* and TLD, the error, and the Output it leads to (<<>> when there is none).
Verify(w) ==
  /\ wpc[w] = "verify"
  /\ \E env \in PoolEnvs : \E res \in {VerifyDomain(wd[w] \o <<".">> \o tldsOverride[wt[w]], vCfg, env)} :
       LET t == wt[w]
           skip == res.err # ErrNil \/ dropped(res.v)
           next == IF res.err # ErrNil THEN afterError(t) ELSE afterTLD(t)
           out == IF skip THEN <<>> ELSE <<Output(res.v)>>
       IN /\ calls' = calls (+) SetToBag({[d |-> wd[w], t |-> t, err |-> res.err, v |-> res.v, out |-> out]})
          /\ IF skip
             THEN /\ wpc' = [wpc EXCEPT ![w] = next.pc]
                  /\ wt' = [wt EXCEPT ![w] = next.t]
                  /\ UNCHANGED wmsg
             ELSE /\ wpc' = [wpc EXCEPT ![w] = "send"]
                  /\ wmsg' = [wmsg EXCEPT ![w] = out]
                  /\ UNCHANGED wt
  /\ UNCHANGED <<workers, maxDomains, candidates, tldsOverride, vCfg, mainPc, spawned, prodPc, sendIdx, wd, inClosed, outClosed, wg, allData, sentIn, verifyVars>>

\* out <- Output{...} of worker w meets main's `for dnsResult := range out`
Collect(w) ==
  /\ mainPc = "read"
  /\ wpc[w] = "send"
  /\ ~outClosed
  /\ allData' = Append(allData, wmsg[w][1])
  /\ wmsg' = [wmsg EXCEPT ![w] = <<>>]
  /\ wpc' = [wpc EXCEPT ![w] = afterTLD(wt[w]).pc]
  /\ wt' = [wt EXCEPT ![w] = afterTLD(wt[w]).t]
  /\ UNCHANGED <<workers, maxDomains, candidates, tldsOverride, vCfg, mainPc, spawned, prodPc, sendIdx, wd, inClosed, outClosed, wg, sentIn, calls, verifyVars>>

\* a worker that returns without wg.Done()
WorkerReturn_NoDone(w) ==
  /\ wpc[w] = "range"
  /\ inClosed
  /\ wpc' = [wpc EXCEPT ![w] = "done"]
  /\ UNCHANGED <<workers, maxDomains, candidates, tldsOverride, vCfg, mainPc, spawned, prodPc, sendIdx, wd, wt, wmsg, inClosed, outClosed, wg, allData, sentIn, calls, verifyVars>>

\* `range in` ends for worker w; the deferred wg.Done() runs
WorkerReturn(w) ==
  /\ wpc[w] = "range"
  /\ inClosed
  /\ wpc' = [wpc EXCEPT ![w] = "done"]
  /\ wg' = wg - 1
  /\ UNCHANGED <<workers, maxDomains, candidates, tldsOverride, vCfg, mainPc, spawned, prodPc, sendIdx, wd, wt, wmsg, inClosed, outClosed, allData, sentIn, calls, verifyVars>>

\* `range out` ends for main
LeaveReadLoop ==
  /\ mainPc = "read"
  /\ outClosed
  /\ mainPc' = "wait"
  /\ UNCHANGED <<workers, maxDomains, candidates, tldsOverride, vCfg, spawned, prodPc, sendIdx, wpc, wd, wt, wmsg, inClosed, outClosed, wg, allData, sentIn, calls, verifyVars>>

\* wg.Wait() of main, then encoder.Encode(allData)
MainWait ==
  /\ mainPc = "wait"
  /\ waitDone
  /\ mainPc' = "done"
  /\ UNCHANGED <<workers, maxDomains, candidates, tldsOverride, vCfg, spawned, prodPc, sendIdx, wpc, wd, wt, wmsg, inClosed, outClosed, wg, allData, sentIn, calls, verifyVars>>

Next ==
  \/ SpawnWorker
  \/ StartProducer
  \/ \E w \in Workers : SendPermutation(w)
  \/ CloseIn
  \/ ProducerWait
  \/ CloseOut
  \/ \E w \in Workers : Collect(w)
  \/ \E w \in Workers : WorkerReturn(w)
  \/ LeaveReadLoop
  \/ MainWait
  \/ \E w \in Workers : Verify(w)

Spec == Init /\ [][Next]_vars

\* every goroutine that can take a step eventually takes one
FairSpec == Spec /\ WF_vars(Next)

\* ----------------------------------------------- one call of VerifyDomain
\* the pool is not running
PoolIdle ==
  /\ workers = 0
  /\ maxDomains = 0
  /\ candidates = <<>>
  /\ tldsOverride = <<>>
  /\ vCfg = Idle.cfg
  /\ mainPc = "idle"
  /\ spawned = 0
  /\ prodPc = "unborn"
  /\ sendIdx = 1
  /\ wpc = [w \in Workers |-> "unborn"]
  /\ wd = [w \in Workers |-> <<>>]
  /\ wt = [w \in Workers |-> 0]
  /\ wmsg = [w \in Workers |-> <<>>]
  /\ inClosed = FALSE
  /\ outClosed = FALSE
  /\ wg = 0
  /\ allData = <<>>
  /\ sentIn = <<>>
  /\ calls = EmptyBag

\* the arguments of the call
VerifyInit ==
  /\ vin \in [domain : RawDomains, cfg : Configs, env : {EnvNone}]
  /\ vout = NoResult
  /\ vpc = "call"

\* VerifyDomain runs against a network answering as env; vin keeps env
CallVerifyDomain ==
  /\ vpc = "call"
  /\ \E env \in Envs :
       /\ vin' = [vin EXCEPT !.env = env]
       /\ vout' = VerifyDomain(vin.domain, vin.cfg, env)
  /\ vpc' = "returned"
  /\ UNCHANGED poolVars

InitVerify == PoolIdle /\ VerifyInit

NextVerify == CallVerifyDomain

SpecVerify == InitVerify /\ [][NextVerify]_vars

\* ------------------------------------------------------------------ claims
\* what the resolver's answers hold, read off env itself
AddrData(env) == env.addr.err = ErrNil /\ Len(env.addr.ips) > 0

SelfAlias(text, domain) == EqualFold(TrimSuffixDot(text), TrimSuffixDot(domain))

CNAMEData(env, domain) ==
  /\ env.cname.err = ErrNil
  /\ CNAMEText(env.cname.name, domain) # <<>>
  /\ ~SelfAlias(CNAMEText(env.cname.name, domain), domain)

MXData(env) == env.mx.err = ErrNil /\ Len(env.mx.hosts) > 0

NSData(env) == env.ns.err = ErrNil /\ Len(env.ns.hosts) > 0

\* a host with MX records whose address and CNAME lookups return nothing
MXOnly(env) == MXData(env) /\ ~AddrData(env) /\ (env.cname.err # ErrNil \/ env.cname.name = "empty")

Returned == vpc = "returned"

\* the name lookupDNS is queried for
Queried == toASCII(vin.domain).s

Count(seq, x) == Cardinality({i \in DOMAIN seq : seq[i] = x})

Started == {w \in Workers : w <= workers}

\* the (permutation, TLD) pairs of the run
Pairs == {[d |-> Perms[i], t |-> t] : i \in 1..Len(Perms), t \in 1..Len(tldsOverride)}

Calls == BagToSet(calls)

Accepted(c) == c.err = ErrNil /\ (c.v.Resolvable \/ c.v.HasMail)

\* C1: the input queue is closed only after every permutation was sent on it,
\* the output queue only after the input queue is closed and every worker has
\* returned, and no worker is left sending on the closed output queue.
C1_ShutdownOrder ==
  /\ inClosed => sentIn = Perms
  /\ outClosed => inClosed /\ \A w \in Started : wpc[w] = "done"
  /\ \A w \in Workers : wpc[w] = "send" => ~outClosed
  /\ \A w \in Workers \ Started : wpc[w] = "unborn"

C1_Witness == outClosed /\ workers = 2 /\ Len(sentIn) = 2 /\ Len(allData) >= 2

\* C2: when main has left its read loop, every (permutation, TLD) pair was
\* verified exactly once, and allData holds exactly one record for each pair
\* whose call returned no error with Resolvable or HasMail, and nothing else.
C2_Completeness ==
  mainPc \in {"wait", "done"} =>
    /\ \A c \in Calls : CopiesIn(c, calls) = 1 /\ [d |-> c.d, t |-> c.t] \in Pairs
    /\ \A p \in Pairs : Cardinality({c \in Calls : c.d = p.d /\ c.t = p.t}) = 1
    /\ \A c \in Calls : Count(allData, Output(c.v)) = IF Accepted(c) THEN 1 ELSE 0
    /\ Len(allData) = Cardinality({c \in Calls : Accepted(c)})

C2_Witness ==
  /\ mainPc = "done"
  /\ workers = 2
  /\ Cardinality(Pairs) = 4
  /\ Len(allData) = 2
  /\ \E c \in Calls : c.err # ErrNil
  /\ \E c \in Calls : c.err = ErrNil /\ ~Accepted(c)

Terminated ==
  /\ mainPc = "done"
  /\ prodPc = "done"
  /\ inClosed
  /\ outClosed
  /\ \A w \in Started : wpc[w] = "done"

\* C3: with at least one worker, every fair run ends with the producer done,
\* every worker returned, both queues closed and main past its read loop.
C3_Termination == <>Terminated

C3_Witness == Terminated /\ workers = 2 /\ Cardinality(Pairs) = 4 /\ Len(allData) = 4

\* C4: every record put on the output queue has Resolvable or HasMail, and a
\* call whose DNS stage found no A, AAAA, CNAME and MX never leads to a record.
C4_TriageFilter ==
  /\ \A i \in DOMAIN allData : allData[i].Resolvable \/ allData[i].HasMail
  /\ \A w \in Workers : wmsg[w] # <<>> => wmsg[w][1].Resolvable \/ wmsg[w][1].HasMail
  /\ \A c \in Calls :
       (~c.v.DNS.HasA /\ ~c.v.DNS.HasAAAA /\ ~c.v.DNS.HasCNAME /\ ~c.v.DNS.HasMX) =>
          /\ c.out = <<>>
          /\ \A i \in DOMAIN allData : allData[i].DNS # c.v.DNS \/ allData[i].Domain # c.v.ASCII

C4_Witness ==
  /\ \E c \in Calls : c.err = ErrNil /\ c.v.DNS.HasNS /\ c.out = <<>>
  /\ \E c \in Calls : c.err = ErrNil /\ c.v.DNS = DNSResultZero
  /\ vCfg.DoTLS /\ vCfg.DoHTTP /\ vCfg.HTTPFollowRedirects
  /\ Len(allData) >= 1
  /\ mainPc = "done"

\* the step is a VerifyDomain call of worker w that returned an error
ErrorStep(w) ==
  /\ wpc[w] = "verify"
  /\ \E c \in BagToSet(calls') :
       /\ CopiesIn(c, calls') > CopiesIn(c, calls)
       /\ c.err # ErrNil
       /\ c.d = wd[w]
       /\ c.t = wt[w]

\* C5: a VerifyDomain error skips that attempt only: the worker stands at the
\* next TLD of the same permutation (or back at the input queue after the last
\* TLD), nothing is emitted, no queue is closed, nobody else moves.
C5_ErrorIsolation ==
  [][\A w \in Workers :
       ErrorStep(w) =>
         /\ wd'[w] = wd[w]
         /\ IF wt[w] < Len(tldsOverride)
            THEN wpc'[w] = "verify" /\ wt'[w] = wt[w] + 1
            ELSE wpc'[w] = "range"
         /\ \A u \in Workers \ {w} : wpc'[u] = wpc[u] /\ wd'[u] = wd[u] /\ wt'[u] = wt[u]
         /\ UNCHANGED <<wmsg, wg, inClosed, outClosed, allData, mainPc, prodPc, sendIdx>>]_vars

\* after an error on the first TLD of the first permutation, the only worker
\* has emitted the second TLD of it and a TLD of the second permutation
C5_Witness ==
  /\ workers = 1
  /\ \E c \in Calls : c.err # ErrNil /\ c.d = PermName(1) /\ c.t = 1
  /\ \E c \in Calls : Accepted(c) /\ c.d = PermName(1) /\ c.t = 2
  /\ \E c \in Calls : Accepted(c) /\ c.d = PermName(2)
  /\ Len(allData) >= 2

\* C6: a Verification returned without error has a TLS result iff DoTLS and
\* Resolvable, an HTTP result iff DoHTTP and Resolvable, and the probes ran for
\* exactly the results present; an MX-only host gets neither probe.
C6_ResolvabilityGate ==
  (Returned /\ vout.err = ErrNil) =>
    /\ vout.v.TLS # <<>> <=> (vin.cfg.DoTLS /\ vout.v.Resolvable)
    /\ vout.v.HTTP # <<>> <=> (vin.cfg.DoHTTP /\ vout.v.Resolvable)
    /\ vout.tls # <<>> <=> vout.v.TLS # <<>>
    /\ vout.http # <<>> <=> vout.v.HTTP # <<>>
    /\ MXOnly(vin.env) => vout.v.TLS = <<>> /\ vout.v.HTTP = <<>> /\ vout.tls = <<>> /\ vout.http = <<>>

C6_Witness ==
  /\ Returned
  /\ vout.err = ErrNil
  /\ MXOnly(vin.env)
  /\ vin.cfg.DoTLS
  /\ vin.cfg.DoHTTP
  /\ vin.env.tls = "cert"
  /\ vout.v.TLS = <<>>
  /\ vout.v.HTTP = <<>>

\* C7: a Verification returned without error has Resolvable = HasA or HasAAAA
\* or HasCNAME and HasMail = HasMX; an MX-only host is returned without error,
\* not Resolvable, with HasMail, and passes the pool's triage filter.
C7_ResolvableAndMail ==
  Returned =>
    /\ vout.err = ErrNil =>
         /\ vout.v.Resolvable = (vout.v.DNS.HasA \/ vout.v.DNS.HasAAAA \/ vout.v.DNS.HasCNAME)
         /\ vout.v.HasMail = vout.v.DNS.HasMX
         /\ vout.v.DNS = vout.lookup[1].r
    /\ (vout.lookup # <<>> /\ MXOnly(vin.env)) =>
         /\ vout.err = ErrNil
         /\ ~vout.v.Resolvable
         /\ vout.v.HasMail
         /\ ~dropped(vout.v)

C7_Witness ==
  /\ Returned
  /\ vout.err = ErrNil
  /\ MXOnly(vin.env)
  /\ ~vout.v.Resolvable
  /\ vout.v.HasMail
  /\ vout.v.DNS.MX = <<TrimSuffixDot(MailHost)>>

ContextErrorSeen(env) ==
  \/ IsContextErr(env.addr.err)
  \/ IsContextErr(env.cname.err)
  \/ IsContextErr(env.mx.err)
  \/ IsContextErr(env.ns.err)

\* C8: if any of the four lookups fails with context.Canceled or
\* context.DeadlineExceeded, VerifyDomain returns an error and the zero
\* Verification, and starts neither the TLS nor the HTTP probe.
C8_ContextErrorFatal ==
  (Returned /\ vout.lookup # <<>> /\ ContextErrorSeen(vin.env)) =>
    /\ vout.err # ErrNil
    /\ vout.v = VerificationZero
    /\ vout.tls = <<>>
    /\ vout.http = <<>>

RECURSIVE TextsOf(_, _)
TextsOf(ips, v4) ==
  IF ips = <<>> THEN <<>>
  ELSE IF (Head(ips).bytes = 4 \/ Head(ips).mapped) = v4
  THEN <<Head(ips).text>> \o TextsOf(Tail(ips), v4)
  ELSE TextsOf(Tail(ips), v4)

\* C9: if at least one record type returned data, lookupDNS returns no error,
\* all four lookups were made, and the result holds the data of every lookup
\* that succeeded.
C9_PartialSuccess ==
  (Returned /\ vout.lookup # <<>>) =>
    LET env == vin.env
        got == vout.lookup[1]
    IN (AddrData(env) \/ CNAMEData(env, Queried) \/ MXData(env) \/ NSData(env)) =>
         /\ got.err = ErrNil
         /\ vout.dns = <<"LookupIPAddr", "LookupCNAME", "LookupMX", "LookupNS">>
         /\ AddrData(env) =>
              /\ got.r.A = TextsOf(env.addr.ips, TRUE)
              /\ got.r.AAAA = TextsOf(env.addr.ips, FALSE)
              /\ got.r.HasA = (got.r.A # <<>>)
              /\ got.r.HasAAAA = (got.r.AAAA # <<>>)
         /\ CNAMEData(env, Queried) =>
              got.r.HasCNAME /\ got.r.CNAME = TrimSuffixDot(CNAMEText(env.cname.name, Queried))
         /\ MXData(env) =>
              got.r.HasMX /\ got.r.MX = [i \in 1..Len(env.mx.hosts) |-> TrimSuffixDot(env.mx.hosts[i])]
         /\ NSData(env) =>
              got.r.HasNS /\ got.r.NS = [i \in 1..Len(env.ns.hosts) |-> TrimSuffixDot(env.ns.hosts[i])]

\* the address and CNAME lookups fail, MX and NS return data
C9_Witness ==
  /\ Returned
  /\ vout.lookup # <<>>
  /\ vin.env.addr.err = ErrOther
  /\ vin.env.cname.err = ErrDeadline
  /\ MXData(vin.env)
  /\ NSData(vin.env)
  /\ vout.lookup[1].err = ErrNil
  /\ vout.lookup[1].r.HasMX
  /\ vout.lookup[1].r.HasNS

\* none of the four lookups yields a record
NoRecords(env, domain) == ~AddrData(env) /\ ~CNAMEData(env, domain) /\ ~MXData(env) /\ ~NSData(env)

\* C10: when none of the lookups yields a record (each fails, or succeeds with
\* an empty answer, or the CNAME answer is the queried name itself), lookupDNS
\* returns an error and the zero DNSResult.
C10_NoRecordsError ==
  (Returned /\ vout.lookup # <<>> /\ NoRecords(vin.env, Queried)) =>
    /\ vout.lookup[1].err # ErrNil
    /\ vout.lookup[1].r = DNSResultZero

\* ------------------------------------------------- claims on the DNSResult
\* the DNSResult lookupDNS returned in the call
Got == vout.lookup[1].r

\* C11: in every DNSResult lookupDNS produces, each presence flag is true
\* exactly when its list or string is non-empty.
C11_PresenceFlags ==
  (Returned /\ vout.lookup # <<>>) =>
    /\ Got.HasA <=> Got.A # <<>>
    /\ Got.HasAAAA <=> Got.AAAA # <<>>
    /\ Got.HasCNAME <=> Got.CNAME # <<>>
    /\ Got.HasMX <=> Got.MX # <<>>
    /\ Got.HasNS <=> Got.NS # <<>>

\* the CNAME answer is the queried name, whatever its letter case
SelfAnswer(env) == env.cname.err = ErrNil /\ env.cname.name \in {"self", "selfUpper"}

\* C12: when the CNAME answer is the queried name (letter case and a trailing
\* dot ignored), the returned Verification has HasCNAME false and CNAME empty,
\* and without address data the host is not Resolvable.
C12_SelfAliasSuppressed ==
  (Returned /\ vout.err = ErrNil /\ SelfAnswer(vin.env)) =>
    /\ ~vout.v.DNS.HasCNAME
    /\ vout.v.DNS.CNAME = <<>>
    /\ ~AddrData(vin.env) => ~vout.v.Resolvable

\* ------------------------------------------------- one call of a probe
ProbeDomain == <<"a", ".", "c">>

\* the arguments of a fetchHTTP call, or of a fetchTLS call
ProbeInit ==
  /\ \/ /\ vin \in [call : {"fetchHTTP"}, https : BOOLEAN, domain : {ProbeDomain}, cfg : Configs,
                    henv : {[https |-> Down, http |-> Down]}]
        /\ vpc = "callHTTP"
     \/ /\ vin = [call |-> "fetchTLS", domain |-> ProbeDomain, peer |-> "dial_fail"]
        /\ vpc = "callTLS"
  /\ vout = NoResult

\* fetchHTTP runs against a host whose two schemes behave as henv; vin keeps henv
CallFetchHTTP ==
  /\ vpc = "callHTTP"
  /\ \E henv \in [https : Sites, http : Sites] :
       /\ vin' = [vin EXCEPT !.henv = henv]
       /\ vout' = fetchHTTP(vin.https, vin.domain, vin.cfg, henv)
  /\ vpc' = "returnedHTTP"
  /\ UNCHANGED poolVars

\* fetchTLS runs against a peer that behaves as peer; vin keeps peer
CallFetchTLS ==
  /\ vpc = "callTLS"
  /\ \E peer \in TLSPeers :
       /\ vin' = [vin EXCEPT !.peer = peer]
       /\ vout' = fetchTLS(vin.domain, peer)
  /\ vpc' = "returnedTLS"
  /\ UNCHANGED poolVars

InitProbe == PoolIdle /\ ProbeInit

NextProbe == CallFetchHTTP \/ CallFetchTLS

SpecProbe == InitProbe /\ [][NextProbe]_vars

\* fetchHTTP returned an HTTPResult (it did not panic)
ReturnedHTTP == vpc = "returnedHTTP" /\ ~vout.panic

ReturnedTLS == vpc = "returnedTLS"

\* the site the first attempt of the call goes to
FirstSite == IF vin.https THEN vin.henv.https ELSE vin.henv.http

\* ------------------------------------------------ claims on the HTTP probe
\* the redirects the client followed over the attempts of the call: every
\* request of an attempt after its first one follows a redirect
RECURSIVE Followed(_)
Followed(net) == IF net = <<>> THEN 0 ELSE (Head(net)[3] - 1) + Followed(Tail(net))

\* C13: with HTTPFollowRedirects the HTTPResult fetchHTTP returns lists, in
\* visiting order, every redirect URL that was followed: its RedirectChain is
\* the chain the CheckRedirect callback built, one entry per redirect followed.
C13_ChainRecorded ==
  (ReturnedHTTP /\ vin.cfg.HTTPFollowRedirects) =>
    /\ vout.res.RedirectChain = vout.closureChain
    /\ Len(vout.res.RedirectChain) = Followed(vout.net)

\* C14: the RedirectChain of the returned HTTPResult, and the chain the
\* redirect callback appends to, never hold more than 10 entries, also when
\* the HTTPS attempt is followed by the fallback attempt of the same client.
C14_ChainBound ==
  ReturnedHTTP =>
    /\ Len(vout.res.RedirectChain) <= 10
    /\ Len(vout.closureChain) <= 10

\* the second attempt of the call goes to http://<host>/ of the same host,
\* with the configured User-Agent
FallbackAttempt ==
  /\ Len(vout.net) = 2
  /\ vout.net[1][1] = "https"
  /\ vout.net[2][1] = "http"
  /\ vout.net[2][2] = vin.cfg.UserAgent
  /\ vout.net[2][4] = vin.domain
  /\ vout.res.URL = getTargetDomain(FALSE, vin.domain)

\* C15: HTTPS-first, a host whose https side cannot be reached gets exactly
\* one further attempt, on http:// of the same host with the configured
\* User-Agent; a host whose https side answers gets no http:// attempt; no
\* call issues more than two attempts.
C15_ProtocolFallback ==
  (ReturnedHTTP /\ vin.https) =>
    /\ Len(vout.net) <= 2
    /\ ~vin.henv.https.up => FallbackAttempt
    /\ vin.henv.https.up => Len(vout.net) = 1 /\ vout.net[1][1] = "https"

\* the site that answered the last attempt of the call
LastSite == IF Len(vout.net) = 2 THEN vin.henv.http ELSE FirstSite

\* C16: without HTTPFollowRedirects every attempt issues one request only, the
\* status and Location recorded are those of the first hop, and no chain
\* entry is recorded.
C16_NoFollow ==
  (ReturnedHTTP /\ ~vin.cfg.HTTPFollowRedirects) =>
    /\ \A i \in DOMAIN vout.net : vout.net[i][3] = 1
    /\ vout.res.RedirectChain = <<>>
    /\ vout.closureChain = <<>>
    /\ (LastSite.up /\ LastSite.redirects > 0) =>
         vout.res.StatusCode = RedirectResp.StatusCode /\ vout.res.Location = RedirectResp.Location
    /\ (LastSite.up /\ LastSite.redirects = 0) => vout.res.StatusCode = FinalResp.StatusCode

\* the https side is down, the http side redirects: the first hop is recorded
C16_Witness ==
  /\ ReturnedHTTP
  /\ ~vin.cfg.HTTPFollowRedirects
  /\ vin.https
  /\ ~vin.henv.https.up
  /\ vin.henv.http.redirects = 2
  /\ vout.res.StatusCode = 301
  /\ vout.net[2][3] = 1

\* C17: when a probe returns, every TCP connection fetchTLS opened is closed
\* and no HTTP response fetchHTTP obtained is left unclosed.
C17_NoLeak ==
  /\ ReturnedTLS => Count(vout.net, "open:443") = Count(vout.net, "close:443")
  /\ ReturnedHTTP => vout.open = 0

\* C18: a TLSResult returned with Connected false is zero in every field.
C18_TLSZero == (ReturnedTLS /\ ~vout.res.Connected) => vout.res = TLSResultZero

\* the HTTPS attempt runs into the redirect limit
LimitExceeded ==
  vin.https /\ vin.cfg.HTTPFollowRedirects /\ vin.henv.https.up /\ vin.henv.https.redirects >= RedirectLimit

\* C20: when the redirect limit stops the HTTPS attempt, fetchHTTP issues no
\* further request, and the result it returns holds the chain collected so far.
C20_LimitStops ==
  (ReturnedHTTP /\ LimitExceeded) =>
    /\ Len(vout.net) = 1
    /\ vout.res.URL = getTargetDomain(TRUE, vin.domain)
    /\ vout.res.RedirectChain = vout.closureChain

\* -------------------------------------------------------- runs with -max
\* what typo.Generate may return before the cut: the lists of Generated, and
\* one strategy holding several permutations
GeneratedMax == Generated \cup {<<Strategy(1, n)>> : n \in 2..MaxPerms}

\* the pool run with the command line's default probes (-tls only) and any -max
InitMax ==
  /\ PoolInitFrom(1..MaxWorkers, 0..MaxCap, GeneratedMax, {c \in PoolConfigs : c.DoTLS /\ ~c.DoHTTP})
  /\ VerifyIdle

SpecMax == InitMax /\ [][Next]_vars

\* C19: with -max N, N > 0, at most N permutations are sent on the input
\* queue and verified; with N = 0 every permutation is sent.
C19_CandidateCap ==
  /\ maxDomains > 0 =>
       /\ Len(sentIn) <= maxDomains
       /\ Cardinality({c.d : c \in Calls}) <= maxDomains
  /\ (maxDomains = 0 /\ inClosed) => sentIn = Perms

\* -------------------------------------------------- the redirect limit
\* the https side redirects more often than the limit allows
RedirectsForever == vin.henv.https.up /\ vin.henv.https.redirects > RedirectLimit

\* C21: with HTTPFollowRedirects, against a target that redirects forever the
\* client follows exactly 10 redirects and refuses the 11th: the HTTPS attempt
\* issues 11 requests, the first and one for each redirect followed.
C21_TenRedirects ==
  (ReturnedHTTP /\ vin.https /\ vin.cfg.HTTPFollowRedirects /\ RedirectsForever) =>
    vout.net[1][3] = RedirectLimit + 1

\* ------------------------------------------------ failure of both attempts
\* client.Do fails against site: no connection, or the redirect limit
AttemptFails(site, cfg) == ~site.up \/ (cfg.HTTPFollowRedirects /\ site.redirects >= RedirectLimit)

\* C22: when the HTTPS attempt and the http:// fallback attempt both fail,
\* VerifyDomain returns nil error and a Verification whose HTTP result is the
\* attempted-but-empty one: Attempted, no status, no Location, no Server, an
\* empty RedirectChain.
C22_HTTPFailureNonFatal ==
  (Returned /\ vout.http # <<>> /\ AttemptFails(vin.env.https, vin.cfg) /\ AttemptFails(vin.env.http, vin.cfg)) =>
    /\ vout.err = ErrNil
    /\ Len(vout.http) = 2
    /\ vout.v.HTTP # <<>>
    /\ vout.v.HTTP[1].Attempted
    /\ vout.v.HTTP[1].Status = ""
    /\ vout.v.HTTP[1].StatusCode = 0
    /\ vout.v.HTTP[1].Location = ""
    /\ vout.v.HTTP[1].Server = ""
    /\ vout.v.HTTP[1].RedirectChain = <<>>

\* both sides of a resolvable host are down
C22_Witness ==
  /\ Returned
  /\ vout.err = ErrNil
  /\ vout.v.Resolvable
  /\ ~vin.env.https.up
  /\ ~vin.env.http.up
  /\ Len(vout.http) = 2
  /\ vout.v.HTTP # <<>>
  /\ vout.v.HTTP[1].Attempted
  /\ vout.v.HTTP[1].StatusCode = 0

\* ------------------------------------------------- hostname normalization
\* what is left of a raw domain once the surrounding whitespace and then one
\* trailing dot are taken away
Remainder(domain) == TrimSuffixDot(TrimSpace(domain))

\* s has no whitespace at either end and no trailing dot
Normalized(s) == s[1] # " " /\ s[Len(s)] # " " /\ s[Len(s)] # "."

\* C23: the string handed to the IDNA conversion has no surrounding whitespace
\* and no trailing dot, and VerifyDomain fails with the empty-domain error,
\* without any DNS, TLS or HTTP work, exactly when nothing remains of the raw
\* domain after trimming whitespace and one trailing dot.
C23_Normalization ==
  Returned =>
    /\ trimDomain(vin.domain) # <<>> => Normalized(trimDomain(vin.domain))
    /\ vout.err = ErrEmpty <=> Remainder(vin.domain) = <<>>
    /\ vout.err = ErrEmpty =>
         vout.lookup = <<>> /\ vout.dns = <<>> /\ vout.tls = <<>> /\ vout.http = <<>>

\* ----------------------------------------------------- the missing response
\* C24: fetchHTTP returns on every path without reading a missing response;
\* called with https = FALSE against a host whose request fails, it returns
\* the attempted-but-empty result.
C24_NoNilDereference ==
  vpc = "returnedHTTP" =>
    /\ ~vout.panic
    /\ (~vin.https /\ ~vin.henv.http.up) =>
         vout.res.Attempted /\ vout.res.Status = "" /\ vout.res.StatusCode = 0

\* ------------------------------------------- runs with any -workers value
\* flag.Int accepts any integer: the pool run with -workers negative, zero or
\* positive, the default probes and no -max
InitWorkers ==
  /\ PoolInitFrom({-1, 0} \cup (1..MaxWorkers), {0}, Generated, {c \in PoolConfigs : c.DoTLS /\ ~c.DoHTTP})
  /\ VerifyIdle

SpecWorkers == InitWorkers /\ [][Next]_vars

\* C25: whatever the -workers value, a run with at least one permutation
\* never comes to a stop before the producer has finished, both queues are
\* closed and main has left its read loop: some goroutine can always step.
C25_AnyWorkerCount == Len(Perms) > 0 => (Terminated \/ ENABLED Next)

====
